---- MODULE Spec2Model ----
(***************************************************************************)
(* Model of src/dnsimple.py: the DNSimple REST client.                     *)
(*                                                                         *)
(* One client object talks to a remote service through a requests session. *)
(* Every public method is one action: it builds a path and possibly a      *)
(* body, calls the private request helper, and the helper issues at most   *)
(* one transport request whose answer (status, text) is an input.          *)
(***************************************************************************)
EXTENDS Integers, Sequences, FiniteSets, TLC

VARIABLES endpoint, authdata, useragent, headers, session,
          call, requests, responses, outcome, ncalls

vars == <<endpoint, authdata, useragent, headers, session,
          call, requests, responses, outcome, ncalls>>

sessionVars == <<endpoint, authdata, useragent, headers, session>>

(***************************************************************************)
(* Bounds.                                                                 *)
(***************************************************************************)
\* Number of client calls explored after construction.
MaxCalls == 2

(***************************************************************************)
(* Python values.  Arguments that the code tests for truth, type or length *)
(* are tagged with their Python type.                                      *)
(***************************************************************************)
PyNone == [ty |-> "none", v |-> 0]

PyStr(s) == [ty |-> "str", v |-> s]

PyInt(n) == [ty |-> "int", v |-> n]

PyBool(b) == [ty |-> "bool", v |-> b]

PyDict(d) == [ty |-> "dict", v |-> d]

PyList(l) == [ty |-> "list", v |-> l]

EmptyDict == PyDict([k \in {} |-> PyNone])

\* Python truth value testing: `if x:`.
Truthy(x) ==
    CASE x.ty = "none" -> FALSE
      [] x.ty = "str"  -> x.v # ""
      [] x.ty = "int"  -> x.v # 0
      [] x.ty = "bool" -> x.v
      [] x.ty = "dict" -> DOMAIN x.v # {}
      [] x.ty = "list" -> Len(x.v) > 0

\* Python len(x) for the sized types.
len(x) ==
    CASE x.ty = "str"  -> Len(x.v)
      [] x.ty = "dict" -> Cardinality(DOMAIN x.v)
      [] x.ty = "list" -> Len(x.v)

\* isinstance(x, dict)
isinstance_dict(x) == x.ty = "dict"

\* d[k] = v on a dict value.
SetItem(d, k, val) ==
    PyDict([j \in (DOMAIN d.v) \cup {k} |-> IF j = k THEN val ELSE d.v[j]])

(***************************************************************************)
(* JSON.  json.dumps turns a value into the text that denotes it;          *)
(* json.loads parses a response text, and fails on text that is not JSON.  *)
(***************************************************************************)
NoBody == [ty |-> "nobody", v |-> 0]

json_dumps(data) == [ty |-> "jsontext", v |-> data]

TextKV        == "{\"k\":\"v\"}"
TextAvailable == "{\"available\":true}"
TextListing   == "[{\"domain\":{\"registrant_id\":42}}]"
TextHtml      == "<html>error</html>"

Texts == {TextKV, TextAvailable, TextListing, TextHtml}

json_loads(text) ==
    CASE text = TextKV ->
           [ok |-> TRUE, value |-> PyDict([k |-> PyStr("v")])]
      [] text = TextAvailable ->
           [ok |-> TRUE, value |-> PyDict([available |-> PyBool(TRUE)])]
      [] text = TextListing ->
           [ok |-> TRUE,
            value |-> PyList(<<PyDict([domain |->
                          PyDict([registrant_id |-> PyInt(42)])])>>)]
      [] OTHER ->
           [ok |-> FALSE, value |-> PyNone]

(***************************************************************************)
(* The remote service: the answers a transport request can get.            *)
(***************************************************************************)
Statuses == {200, 302, 400, 404, 500}

Responses == [status : Statuses, text : Texts]

(***************************************************************************)
(* Outcome of a call.                                                      *)
(***************************************************************************)
NoOutcome == [kind |-> "none", exc |-> "", msg |-> "", status |-> 0,
              value |-> PyNone]

Return(val) == [kind |-> "return", exc |-> "", msg |-> "", status |-> 0,
                value |-> val]

Raise(exc, msg, status) == [kind |-> "raise", exc |-> exc, msg |-> msg,
                            status |-> status, value |-> PyNone]

\* What a method hands back: the transport requests it made, the answers
\* they got, and its outcome.
Result(reqs, resps, out) == [requests |-> reqs, responses |-> resps,
                             outcome |-> out]

(***************************************************************************)
(* Session: requests.session(auth, headers) and its verbs.                 *)
(***************************************************************************)
NoExtraHeaders == [k \in {} |-> ""]

ContentTypeJson == "Content-Type" :> "application/json"

\* The request the session puts on the wire: per-request headers are merged
\* over the session's own, the session's auth is attached.
session_request(method, url, data, extra) ==
    [method  |-> method,
     url     |-> url,
     data    |-> data,
     headers |-> extra @@ session.headers,
     auth    |-> session.auth]

\* Response.raise_for_status(): TRUE when it raises.
raise_for_status(resp) == resp.status >= 400

\* json.loads(request.text) as the last statement of a branch.
ReturnDecoded(reqs, resp) ==
    LET parsed == json_loads(resp.text) IN
    IF parsed.ok
    THEN Result(reqs, <<resp>>, Return(parsed.value))
    ELSE Result(reqs, <<resp>>,
                Raise("ValueError", "No JSON object could be decoded",
                      resp.status))

(***************************************************************************)
(* DNSimple.__resthelper, branch by branch.  full is endpoint + url, resp  *)
(* the answer the remote service gives to the request.                     *)
(***************************************************************************)
\* rest_get with the not-found exemption applied whether or not the caller
\* asked for it.
rest_get_always_exempt(full, expect_404, resp) ==
    LET reqs == <<session_request("get", full, NoBody, NoExtraHeaders)>> IN
    IF resp.status = 404
    THEN ReturnDecoded(reqs, resp)
    ELSE IF raise_for_status(resp)
         THEN Result(reqs, <<resp>>,
                     Raise("HTTPError", resp.text, resp.status))
         ELSE ReturnDecoded(reqs, resp)

\* method == 'get'
rest_get(full, expect_404, resp) ==
    LET reqs == <<session_request("get", full, NoBody, NoExtraHeaders)>> IN
    IF expect_404 /\ resp.status = 404
    THEN ReturnDecoded(reqs, resp)
    ELSE IF raise_for_status(resp)
         THEN Result(reqs, <<resp>>,
                     Raise("HTTPError", resp.text, resp.status))
         ELSE ReturnDecoded(reqs, resp)

\* method == "post" and data
rest_post(full, data, resp) ==
    LET extra_header == ContentTypeJson
        postdata == json_dumps(data)
        reqs == <<session_request("post", full, postdata, extra_header)>>
    IN ReturnDecoded(reqs, resp)

\* method == "put" and data
rest_put(full, data, resp) ==
    LET extra_header == ContentTypeJson
        postdata == json_dumps(data)
        reqs == <<session_request("put", full, postdata, extra_header)>>
    IN ReturnDecoded(reqs, resp)

\* rest_delete without the status check, as the write branches are.
rest_delete_unchecked(full, resp) ==
    LET reqs == <<session_request("delete", full, NoBody, NoExtraHeaders)>>
    IN ReturnDecoded(reqs, resp)

\* method == "delete"
rest_delete(full, resp) ==
    LET reqs == <<session_request("delete", full, NoBody, NoExtraHeaders)>>
    IN
    IF raise_for_status(resp)
    THEN Result(reqs, <<resp>>, Raise("HTTPError", resp.text, resp.status))
    ELSE ReturnDecoded(reqs, resp)

\* No branch taken: nothing is sent.
rest_else ==
    Result(<<>>, <<>>,
           Raise("Exception", "Could not find valid method to perform.", 0))

\* resthelper with the write branches not testing data.
resthelper_sends_without_data(method, url, data, expect_404, resp) ==
    LET full == endpoint \o url IN
    IF method = "get" THEN rest_get(full, expect_404, resp)
    ELSE IF method = "post" THEN rest_post(full, data, resp)
    ELSE IF method = "put" THEN rest_put(full, data, resp)
    ELSE IF method = "delete" THEN rest_delete(full, resp)
    ELSE rest_else

resthelper(method, url, data, expect_404, resp) ==
    LET full == endpoint \o url IN
    IF method = "get" THEN rest_get(full, expect_404, resp)
    ELSE IF method = "post" /\ Truthy(data) THEN rest_post(full, data, resp)
    ELSE IF method = "put" /\ Truthy(data) THEN rest_put(full, data, resp)
    ELSE IF method = "delete" THEN rest_delete(full, resp)
    ELSE rest_else

\* The default of the helper's data parameter.
NoData == PyStr("")

(***************************************************************************)
(* Construction.                                                           *)
(***************************************************************************)
Credentials == {<<"alice", "secret">>, <<"bob", "hunter2">>}

Init ==
    /\ endpoint = "https://dnsimple.com"
    /\ authdata \in Credentials
    /\ useragent = "DNSimple Python API v0.1"
    /\ headers = ("Accept" :> "application/json") @@
                 ("User-Agent" :> "DNSimple Python API v0.1")
    /\ session = [auth |-> authdata, headers |-> headers]
    /\ call = [op |-> "__init__"]
    /\ requests = <<>>
    /\ responses = <<>>
    /\ outcome = NoOutcome
    /\ ncalls = 0

\* Do with the headers of the requests just sent kept on the session, as if
\* the per-request headers were written into the session's own.
Do_keeps_request_headers(op, args, res) ==
    /\ ncalls < MaxCalls
    /\ call' = [op |-> op, args |-> args]
    /\ requests' = res.requests
    /\ responses' = res.responses
    /\ outcome' = res.outcome
    /\ ncalls' = ncalls + 1
    /\ session' = [session EXCEPT !.headers =
                      IF res.requests = <<>> THEN @
                      ELSE res.requests[1].headers @@ @]
    /\ UNCHANGED <<endpoint, authdata, useragent, headers>>

\* A call of a public method: the session is only read.
Do(op, args, res) ==
    /\ ncalls < MaxCalls
    /\ call' = [op |-> op, args |-> args]
    /\ requests' = res.requests
    /\ responses' = res.responses
    /\ outcome' = res.outcome
    /\ ncalls' = ncalls + 1
    /\ UNCHANGED sessionVars


(***************************************************************************)
(* DOMAINS                                                                 *)
(***************************************************************************)
get_domain(domain, resp) ==
    resthelper("get", "/domains/" \o domain, NoData, FALSE, resp)

create_domain(domainname, resp) ==
    LET postdata == PyDict([domain |-> PyDict([name |-> PyStr(domainname)])])
    IN resthelper("post", "/domains", postdata, FALSE, resp)

check_domain(domainname, resp) ==
    resthelper("get", "/domains/" \o domainname \o "/check", NoData, TRUE,
               resp)

\* self.getdomains(): the class defines no attribute of that name (the
\* listing method is get_domain), so the lookup raises AttributeError
\* before any request is made.
getdomains ==
    Result(<<>>, <<>>,
           Raise("AttributeError",
                 "'DNSimple' object has no attribute 'getdomains'", 0))

\* val[0]['domain']['registrant_id']
FirstRegistrant(val) ==
    IF /\ val.ty = "list"
       /\ Len(val.v) > 0
       /\ val.v[1].ty = "dict"
       /\ "domain" \in DOMAIN val.v[1].v
       /\ val.v[1].v["domain"].ty = "dict"
       /\ "registrant_id" \in DOMAIN val.v[1].v["domain"].v
    THEN [ok |-> TRUE, value |-> val.v[1].v["domain"].v["registrant_id"]]
    ELSE [ok |-> FALSE, value |-> PyNone]

register_domain(domainname, registrant_id, extended_attributes, resp) ==
    LET listed == getdomains
        first  == IF listed.outcome.kind = "return"
                  THEN FirstRegistrant(listed.outcome.value)
                  ELSE [ok |-> FALSE, value |-> PyNone]
        \* The bare except prints a message and evaluates the name `exit`
        \* without calling it: execution goes on with registrant_id as it was.
        rid    == IF ~Truthy(registrant_id)
                  THEN IF first.ok THEN first.value ELSE registrant_id
                  ELSE registrant_id
        before == IF ~Truthy(registrant_id) THEN listed.requests ELSE <<>>
        answers == IF ~Truthy(registrant_id) THEN listed.responses ELSE <<>>
        inner0 == PyDict([name |-> PyStr(domainname), registrant_id |-> rid])
        inner  == IF Truthy(extended_attributes)
                     /\ isinstance_dict(extended_attributes)
                  THEN SetItem(inner0, "extended_attribute",
                               extended_attributes)
                  ELSE inner0
        postdata == PyDict([domain |-> inner])
        posted == resthelper("post", "/domain_registrations", postdata,
                             FALSE, resp)
    IN Result(before \o posted.requests, answers \o posted.responses,
              posted.outcome)

transfer_domain(domainname, registrant_id, authinfo, resp) ==
    LET postdata0 == PyDict([domain |->
                        PyDict([name |-> PyStr(domainname),
                                registrant_id |-> registrant_id])])
        postdata  == IF Truthy(authinfo)
                     THEN SetItem(postdata0, "transfer_order",
                                  PyDict([authinfo |-> authinfo]))
                     ELSE postdata0
    IN resthelper("post", "/domain_transfers", postdata, FALSE, resp)

renew_domain(domainname, renew_whois, resp) ==
    LET inner0 == PyDict([name |-> PyStr(domainname)])
        inner  == IF renew_whois
                  THEN SetItem(inner0, "renew_whois_privacy", EmptyDict)
                  ELSE inner0
        postdata == PyDict([domain |-> inner])
    IN resthelper("post", "/domain_renewal", postdata, FALSE, resp)

enable_auto_renewal(domain, resp) ==
    LET postdata == PyDict([auto_renewal |-> EmptyDict])
    IN resthelper("post", "/domains/" \o domain \o "/auto_renewal", postdata,
                  FALSE, resp)

disable_auto_renewal(domain, resp) ==
    resthelper("delete", "/domains/" \o domain \o "/auto_renewal", NoData,
               FALSE, resp)

delete_domain(domain, resp) ==
    resthelper("delete", "/domains/" \o domain, NoData, FALSE, resp)

(***************************************************************************)
(* NAMESERVERS                                                             *)
(***************************************************************************)
default_nameservers ==
    PyDict([ns1 |-> PyStr("ns1.dnsimple.com"),
            ns2 |-> PyStr("ns2.dnsimple.com"),
            ns3 |-> PyStr("ns3.dnsimple.com"),
            ns4 |-> PyStr("ns4.dnsimple.com")])

\* nameservers falling back to the defaults when given neither option.
nameservers_defaults_on_neither(domain, ns, reset, resp) ==
    IF Truthy(ns) /\ reset THEN
        Result(<<>>, <<>>,
               Raise("ValueError",
                     "Provide either nameservers or reset, not both.", 0))
    ELSE IF Truthy(ns) THEN
        IF (~isinstance_dict(ns)) /\ len(ns) < 7
        THEN resthelper("post", "/domains/" \o domain \o "/name_servers",
                        PyDict([name_servers |-> ns]), FALSE, resp)
        ELSE Result(<<>>, <<>>,
                    Raise("ValueError",
                          "nameservers must be a dict of length 6 or less.",
                          0))
    ELSE
        resthelper("post", "/domains/" \o domain \o "/name_servers",
                   PyDict([name_servers |-> default_nameservers]), FALSE,
                   resp)

nameservers(domain, ns, reset, resp) ==
    IF Truthy(ns) /\ reset THEN
        Result(<<>>, <<>>,
               Raise("ValueError",
                     "Provide either nameservers or reset, not both.", 0))
    ELSE IF Truthy(ns) THEN
        IF (~isinstance_dict(ns)) /\ len(ns) < 7
        THEN resthelper("post", "/domains/" \o domain \o "/name_servers",
                        PyDict([name_servers |-> ns]), FALSE, resp)
        ELSE Result(<<>>, <<>>,
                    Raise("ValueError",
                          "nameservers must be a dict of length 6 or less.",
                          0))
    ELSE IF reset THEN
        resthelper("post", "/domains/" \o domain \o "/name_servers",
                   PyDict([name_servers |-> default_nameservers]), FALSE,
                   resp)
    ELSE
        Result(<<>>, <<>>,
               Raise("ValueError",
                     "Must provide either nameservers or reset.", 0))

(***************************************************************************)
(* SERVICES                                                                *)
(***************************************************************************)
get_services(serviceid, resp) ==
    resthelper("get", "/services/" \o serviceid, NoData, FALSE, resp)

get_applied_services(domain, resp) ==
    resthelper("get", "/domains/" \o domain \o "/applied_services", NoData,
               FALSE, resp)

get_available_services(domain, resp) ==
    resthelper("get", "/domains/" \o domain \o "/available_services", NoData,
               FALSE, resp)

apply_service(domain, service, resp) ==
    LET postdata == PyDict([service |->
                       PyDict([name_or_id |-> PyStr(service)])])
    IN resthelper("post", "/domains/" \o domain \o "/applied_services",
                  postdata, FALSE, resp)

remove_service(domain, service_id, resp) ==
    resthelper("delete",
               "/domains/" \o domain \o "/applied_services/" \o service_id,
               NoData, FALSE, resp)

(***************************************************************************)
(* RECORDS                                                                 *)
(***************************************************************************)
\* if val: d[key] = val
SetIfTruthy(d, key, val) == IF Truthy(val) THEN SetItem(d, key, val) ELSE d

get_record(domain, record_id, resp) ==
    resthelper("get", "/domains/" \o domain \o "/records/" \o record_id,
               NoData, FALSE, resp)

create_record(domain, record_name, record_type, record_content, record_ttl, record_prio, resp) ==
    LET r0 == PyDict([name |-> PyStr(record_name),
                      record_type |-> PyStr(record_type),
                      content |-> PyStr(record_content)])
        r1 == SetIfTruthy(r0, "ttl", record_ttl)
        r2 == SetIfTruthy(r1, "prio", record_prio)
        postdata == PyDict([record |-> r2])
    IN resthelper("post", "/domains/" \o domain \o "/records", postdata,
                  FALSE, resp)

update_record(domain, record_id, record_name, record_content, record_ttl, record_prio, resp) ==
    LET r0 == EmptyDict
        r1 == SetIfTruthy(r0, "name", record_name)
        r2 == SetIfTruthy(r1, "content", record_content)
        r3 == SetIfTruthy(r2, "ttl", record_ttl)
        r4 == SetIfTruthy(r3, "prio", record_prio)
        postdata == PyDict([record |-> r4])
    IN resthelper("put", "/domains/" \o domain \o "/records/" \o record_id,
                  postdata, FALSE, resp)

delete_record(domain, record_id, resp) ==
    resthelper("delete", "/domains/" \o domain \o "/records/" \o record_id,
               NoData, FALSE, resp)

(***************************************************************************)
(* VANITY NAME SERVERS                                                     *)
(***************************************************************************)
enable_vanity_name_servers(domain, server_source, ns, resp) ==
    LET keystring == "vanity_nameserver_configuration"
        postdata == PyDict(keystring :>
                       PyDict([server_source |-> PyStr(server_source)]))
    IN
    IF server_source = "dnsimple" THEN
        resthelper("post", "/domains/" \o domain \o "/vanity_name_servers",
                   postdata, FALSE, resp)
    ELSE IF server_source = "external" /\ Truthy(ns) /\ isinstance_dict(ns)
    THEN
        \* The loop body subscripts postdata[server_source]; ns has at least
        \* one item, so the first iteration runs.
        IF server_source \in DOMAIN postdata.v
        THEN resthelper("post",
                 "/domains/" \o domain \o "/vanity_name_servers",
                 SetItem(postdata, server_source,
                     PyDict([k \in (DOMAIN postdata.v[server_source].v)
                                   \cup (DOMAIN ns.v) |->
                             IF k \in DOMAIN ns.v THEN ns.v[k]
                             ELSE postdata.v[server_source].v[k]])),
                 FALSE, resp)
        ELSE Result(<<>>, <<>>, Raise("KeyError", server_source, 0))
    ELSE
        Result(<<>>, <<>>,
               Raise("ValueError", "Incorrect parameters passed to method.",
                     0))

disable_vanity_name_servers(domain, resp) ==
    resthelper("delete", "/domains/" \o domain \o "/vanity_name_servers",
               NoData, FALSE, resp)

(***************************************************************************)
(* CONTACTS                                                                *)
(***************************************************************************)
\* The body create_contact and update_contact build: c holds the nine
\* required fields, o the five optional ones.
contact_postdata(c, o) ==
    LET c0 == PyDict([first_name     |-> PyStr(c.first_name),
                      last_name      |-> PyStr(c.last_name),
                      address1       |-> PyStr(c.address1),
                      city           |-> PyStr(c.city),
                      state_province |-> PyStr(c.state_province),
                      postal_code    |-> PyStr(c.postal_code),
                      country        |-> PyStr(c.country),
                      email_address  |-> PyStr(c.email_address),
                      phone          |-> PyStr(c.phone)])
        c1 == SetIfTruthy(c0, "organization_name", o.org_name)
        c2 == SetIfTruthy(c1, "job_title", o.job_title)
        c3 == SetIfTruthy(c2, "fax", o.fax)
        c4 == SetIfTruthy(c3, "phone_ext", o.phone_ext)
        c5 == SetIfTruthy(c4, "label", o.label)
    IN PyDict([contact |-> c5])

get_contact(contact_id, resp) ==
    resthelper("get", "/contacts/" \o contact_id, NoData, FALSE, resp)

create_contact(c, o, resp) ==
    resthelper("post", "/contacts", contact_postdata(c, o), FALSE, resp)

update_contact(contact_id, c, o, resp) ==
    resthelper("put", "/contacts/" \o contact_id, contact_postdata(c, o),
               FALSE, resp)

delete_contact(contact_id, resp) ==
    resthelper("delete", "/contacts/" \o contact_id, NoData, FALSE, resp)

(***************************************************************************)
(* TEMPLATES                                                               *)
(***************************************************************************)
get_template(template, resp) ==
    resthelper("get", "/templates/" \o template, NoData, FALSE, resp)

create_template(name, short_name, description, resp) ==
    LET t0 == PyDict([name |-> PyStr(name), short_name |-> PyStr(short_name)])
        t1 == SetIfTruthy(t0, "description", description)
        postdata == PyDict([dns_template |-> t1])
    IN resthelper("post", "/templates", postdata, FALSE, resp)

delete_template(template, resp) ==
    resthelper("delete", "/templates/" \o template, NoData, FALSE, resp)

apply_template_to_domain(domain, template, resp) ==
    resthelper("post",
               "/domains/" \o domain \o "/templates/" \o template \o "/apply",
               NoData, FALSE, resp)

(***************************************************************************)
(* TEMPLATE RECORDS                                                        *)
(***************************************************************************)
get_template_record(template, record_id, resp) ==
    resthelper("get",
               "/templates/" \o template \o "/template_records/" \o record_id,
               NoData, FALSE, resp)

create_template_record(template, name, record_type, content, ttl, prio, resp) ==
    LET r0 == PyDict([name |-> PyStr(name),
                      record_type |-> PyStr(record_type),
                      content |-> PyStr(content)])
        r1 == SetIfTruthy(r0, "ttl", ttl)
        r2 == SetIfTruthy(r1, "prio", prio)
        postdata == PyDict([dns_template_record |-> r2])
    IN resthelper("post", "/templates/" \o template \o "/template_records",
                  postdata, FALSE, resp)

delete_template_record(template, record_id, resp) ==
    resthelper("delete",
               "/templates/" \o template \o "/template_records/" \o record_id,
               NoData, FALSE, resp)

(***************************************************************************)
(* EXTENDED ATTRIBUTES                                                     *)
(***************************************************************************)
required_extended_attributes(tld, resp) ==
    resthelper("get", "/extended_attributes/" \o tld, NoData, FALSE, resp)

(***************************************************************************)
(* WHOIS PRIVACY PROTECTION                                                *)
(***************************************************************************)
enable_privacy_protection(domain, resp) ==
    resthelper("post", "/domains/" \o domain \o "/whois_privacy", NoData,
               FALSE, resp)

disable_privacy_protection(domain, resp) ==
    resthelper("delete", "/domains/" \o domain \o "/whois_privacy", NoData,
               FALSE, resp)

(***************************************************************************)
(* SHARING                                                                 *)
(***************************************************************************)
get_domain_members(domain, resp) ==
    resthelper("get", "/domains/" \o domain \o "/memberships", NoData, FALSE,
               resp)

\* postdata is built and then not passed on: the helper gets its default.
add_domain_member(domain, email, resp) ==
    LET postdata == PyDict([membership |-> PyDict([email |-> PyStr(email)])])
    IN resthelper("post", "/domains/" \o domain \o "/memberships", NoData,
                  FALSE, resp)

remove_domain_member(domain, email, resp) ==
    resthelper("delete", "/domains/" \o domain \o "/memberships/" \o email,
               NoData, FALSE, resp)

(***************************************************************************)
(* SSL CERTIFICATES                                                        *)
(***************************************************************************)
get_ssl_certificate(domain, cert_id, resp) ==
    resthelper("get", "/domains/" \o domain \o "/certificates/" \o cert_id,
               NoData, FALSE, resp)

\* postdata is built and then not passed on: the helper gets its default.
purchase_ssl_certificate_for_domain(domain, name, contact_id, csr, resp) ==
    LET c0 == PyDict([name |-> PyStr(name),
                      contact_id |-> PyStr(contact_id)])
        c1 == SetIfTruthy(c0, "csr", csr)
        postdata == PyDict([certificate |-> c1])
    IN resthelper("post", "/domains/" \o domain \o "/certificates", NoData,
                  FALSE, resp)

submit_ssl_certificate(domain, cert_id, resp) ==
    resthelper("put",
               "/domains/" \o domain \o "/certificates/" \o cert_id
                   \o "/submit",
               NoData, FALSE, resp)

(***************************************************************************)
(* USERS                                                                   *)
(***************************************************************************)
create_user_account(email, password, resp) ==
    LET postdata == PyDict([user |->
                       PyDict([email |-> PyStr(email),
                               password |-> PyStr(password),
                               password_confirmation |-> PyStr(password)])])
    IN resthelper("post", "/users", postdata, FALSE, resp)

(***************************************************************************)
(* Argument domains of the calls explored.                                 *)
(***************************************************************************)
Domains == {"example.com"}

\* Identifiers that may be left out (the empty string lists everything).
OptIds == {"", "7"}

Ids == {"7"}

\* Optional string arguments: left out, or given.
OptStrs == {PyStr(""), PyStr("x")}

RegistrantIds == {PyStr(""), PyNone, PyInt(42)}

ExtendedAttributes ==
    {EmptyDict, PyDict([us_nexus |-> PyStr("C11")]), PyStr("C11")}

Ttls == {PyStr(""), PyInt(3600)}

Prios == {PyStr(""), PyInt(0), PyInt(10)}

\* The fields update_record is given: none, some, all.
RecordUpdates ==
    {[name |-> PyStr(""), content |-> PyStr(""), ttl |-> PyStr(""),
      prio |-> PyStr("")],
     [name |-> PyStr(""), content |-> PyStr("5.6.7.8"), ttl |-> PyStr(""),
      prio |-> PyStr("")],
     [name |-> PyStr("mail"), content |-> PyStr(""), ttl |-> PyInt(3600),
      prio |-> PyInt(0)],
     [name |-> PyStr("mail"), content |-> PyStr("5.6.7.8"),
      ttl |-> PyInt(3600), prio |-> PyInt(10)]}

\* A nameserver map with keys ns1..nsN.
NsKeys == <<"ns1", "ns2", "ns3", "ns4", "ns5", "ns6", "ns7">>

NsMap(n) == PyDict([k \in {NsKeys[i] : i \in 1..n} |-> PyStr(k \o ".example.com")])

NameserverArgs ==
    {PyStr(""), EmptyDict, NsMap(1), NsMap(4), NsMap(6), NsMap(7),
     PyStr("ns1.io"), PyStr("ns1.example.com"),
     PyList(<<PyStr("ns1.example.com"), PyStr("ns2.example.com")>>)}

VanityArgs == {EmptyDict, NsMap(1), NsMap(4), NsMap(5), PyStr("ns1.io")}

ServerSources == {"dnsimple", "external", "other"}

HttpMethods == {"get", "post", "put", "delete", "patch"}

Bodies == {NoData, EmptyDict, PyDict([k |-> PyStr("v")])}

Contact == [first_name |-> "Ada", last_name |-> "Lovelace",
            address1 |-> "1 Main St", city |-> "London",
            state_province |-> "LN", postal_code |-> "N1",
            country |-> "GB", email_address |-> "ada@example.com",
            phone |-> "+44 1"]

ContactOptions ==
    {[org_name |-> PyStr(""), job_title |-> PyStr(""), fax |-> PyStr(""),
      phone_ext |-> PyStr(""), label |-> PyStr("")],
     [org_name |-> PyStr("Acme"), job_title |-> PyStr(""), fax |-> PyStr(""),
      phone_ext |-> PyStr(""), label |-> PyStr("home")],
     [org_name |-> PyStr("Acme"), job_title |-> PyStr("CTO"),
      fax |-> PyStr("+44 2"), phone_ext |-> PyStr("12"),
      label |-> PyStr("home")]}

(***************************************************************************)
(* Actions: one per public method, plus direct use of the helper.          *)
(***************************************************************************)
Dispatch ==
    \E m \in HttpMethods, d \in Bodies, e \in BOOLEAN, r \in Responses :
        Do("__resthelper",
           [method |-> m, url |-> "/path", data |-> d, expect_404 |-> e],
           resthelper(m, "/path", d, e, r))

GetDomain ==
    \E d \in Domains \cup {""}, r \in Responses :
        Do("get_domain", [domain |-> d], get_domain(d, r))

CreateDomain ==
    \E d \in Domains, r \in Responses :
        Do("create_domain", [domainname |-> d], create_domain(d, r))

CheckDomain ==
    \E d \in Domains, r \in Responses :
        Do("check_domain", [domainname |-> d], check_domain(d, r))

RegisterDomain ==
    \E d \in Domains, rid \in RegistrantIds, ea \in ExtendedAttributes,
       r \in Responses :
        Do("register_domain",
           [domainname |-> d, registrant_id |-> rid,
            extended_attributes |-> ea],
           register_domain(d, rid, ea, r))

TransferDomain ==
    \E d \in Domains, a \in OptStrs, r \in Responses :
        Do("transfer_domain",
           [domainname |-> d, registrant_id |-> PyInt(42), authdata |-> a],
           transfer_domain(d, PyInt(42), a, r))

RenewDomain ==
    \E d \in Domains, w \in BOOLEAN, r \in Responses :
        Do("renew_domain", [domainname |-> d, renew_whois |-> w],
           renew_domain(d, w, r))

EnableAutoRenewal ==
    \E d \in Domains, r \in Responses :
        Do("enable_auto_renewal", [domain |-> d], enable_auto_renewal(d, r))

DisableAutoRenewal ==
    \E d \in Domains, r \in Responses :
        Do("disable_auto_renewal", [domain |-> d], disable_auto_renewal(d, r))

DeleteDomain ==
    \E d \in Domains, r \in Responses :
        Do("delete_domain", [domain |-> d], delete_domain(d, r))

Nameservers ==
    \E d \in Domains, ns \in NameserverArgs, reset \in BOOLEAN,
       r \in Responses :
        Do("nameservers", [domain |-> d, nameservers |-> ns, reset |-> reset],
           nameservers(d, ns, reset, r))

GetServices ==
    \E s \in OptIds, r \in Responses :
        Do("get_services", [serviceid |-> s], get_services(s, r))

GetAppliedServices ==
    \E d \in Domains, r \in Responses :
        Do("get_applied_services", [domain |-> d], get_applied_services(d, r))

GetAvailableServices ==
    \E d \in Domains, r \in Responses :
        Do("get_available_services", [domain |-> d],
           get_available_services(d, r))

ApplyService ==
    \E d \in Domains, s \in Ids, r \in Responses :
        Do("apply_service", [domain |-> d, service |-> s],
           apply_service(d, s, r))

RemoveService ==
    \E d \in Domains, s \in Ids, r \in Responses :
        Do("remove_service", [domain |-> d, service_id |-> s],
           remove_service(d, s, r))

GetRecord ==
    \E d \in Domains, i \in OptIds, r \in Responses :
        Do("get_record", [domain |-> d, record_id |-> i], get_record(d, i, r))

CreateRecord ==
    \E d \in Domains, ttl \in Ttls, prio \in Prios, r \in Responses :
        Do("create_record",
           [domain |-> d, record_name |-> "www", record_type |-> "A",
            record_content |-> "1.2.3.4", record_ttl |-> ttl,
            record_prio |-> prio],
           create_record(d, "www", "A", "1.2.3.4", ttl, prio, r))

UpdateRecord ==
    \E d \in Domains, i \in Ids, u \in RecordUpdates, r \in Responses :
        Do("update_record",
           [domain |-> d, record_id |-> i, record_name |-> u.name,
            record_content |-> u.content, record_ttl |-> u.ttl,
            record_prio |-> u.prio],
           update_record(d, i, u.name, u.content, u.ttl, u.prio, r))

DeleteRecord ==
    \E d \in Domains, i \in Ids, r \in Responses :
        Do("delete_record", [domain |-> d, record_id |-> i],
           delete_record(d, i, r))

EnableVanityNameServers ==
    \E d \in Domains, s \in ServerSources, ns \in VanityArgs,
       r \in Responses :
        Do("enable_vanity_name_servers",
           [domain |-> d, server_source |-> s, nameservers |-> ns],
           enable_vanity_name_servers(d, s, ns, r))

DisableVanityNameServers ==
    \E d \in Domains, r \in Responses :
        Do("disable_vanity_name_servers", [domain |-> d],
           disable_vanity_name_servers(d, r))

GetContact ==
    \E i \in OptIds, r \in Responses :
        Do("get_contact", [contact_id |-> i], get_contact(i, r))

CreateContact ==
    \E o \in ContactOptions, r \in Responses :
        Do("create_contact", [contact |-> Contact, options |-> o],
           create_contact(Contact, o, r))

UpdateContact ==
    \E i \in Ids, o \in ContactOptions, r \in Responses :
        Do("update_contact",
           [contact_id |-> i, contact |-> Contact, options |-> o],
           update_contact(i, Contact, o, r))

DeleteContact ==
    \E i \in Ids, r \in Responses :
        Do("delete_contact", [contact_id |-> i], delete_contact(i, r))

GetTemplate ==
    \E t \in OptIds, r \in Responses :
        Do("get_template", [template |-> t], get_template(t, r))

CreateTemplate ==
    \E desc \in OptStrs, r \in Responses :
        Do("create_template",
           [name |-> "Mail", short_name |-> "mail", description |-> desc],
           create_template("Mail", "mail", desc, r))

DeleteTemplate ==
    \E t \in Ids, r \in Responses :
        Do("delete_template", [template |-> t], delete_template(t, r))

ApplyTemplateToDomain ==
    \E d \in Domains, t \in Ids, r \in Responses :
        Do("apply_template_to_domain", [domain |-> d, template |-> t],
           apply_template_to_domain(d, t, r))

GetTemplateRecord ==
    \E t \in Ids, i \in OptIds, r \in Responses :
        Do("get_template_record", [template |-> t, record_id |-> i],
           get_template_record(t, i, r))

CreateTemplateRecord ==
    \E t \in Ids, ttl \in Ttls, prio \in Prios, r \in Responses :
        Do("create_template_record",
           [template |-> t, name |-> "www", record_type |-> "A",
            content |-> "1.2.3.4", ttl |-> ttl, prio |-> prio],
           create_template_record(t, "www", "A", "1.2.3.4", ttl, prio, r))

DeleteTemplateRecord ==
    \E t \in Ids, i \in Ids, r \in Responses :
        Do("delete_template_record", [template |-> t, record_id |-> i],
           delete_template_record(t, i, r))

RequiredExtendedAttributes ==
    \E r \in Responses :
        Do("required_extended_attributes", [tld |-> "us"],
           required_extended_attributes("us", r))

EnablePrivacyProtection ==
    \E d \in Domains, r \in Responses :
        Do("enable_privacy_protection", [domain |-> d],
           enable_privacy_protection(d, r))

DisablePrivacyProtection ==
    \E d \in Domains, r \in Responses :
        Do("disable_privacy_protection", [domain |-> d],
           disable_privacy_protection(d, r))

GetDomainMembers ==
    \E d \in Domains, r \in Responses :
        Do("get_domain_members", [domain |-> d], get_domain_members(d, r))

AddDomainMember ==
    \E d \in Domains, r \in Responses :
        Do("add_domain_member", [domain |-> d, email |-> "bob@example.com"],
           add_domain_member(d, "bob@example.com", r))

RemoveDomainMember ==
    \E d \in Domains, r \in Responses :
        Do("remove_domain_member",
           [domain |-> d, email |-> "bob@example.com"],
           remove_domain_member(d, "bob@example.com", r))

GetSslCertificate ==
    \E d \in Domains, i \in OptIds, r \in Responses :
        Do("get_ssl_certificate", [domain |-> d, cert_id |-> i],
           get_ssl_certificate(d, i, r))

PurchaseSslCertificateForDomain ==
    \E d \in Domains, csr \in OptStrs, r \in Responses :
        Do("purchase_ssl_certificate_for_domain",
           [domain |-> d, name |-> "www", contact_id |-> "7", csr |-> csr],
           purchase_ssl_certificate_for_domain(d, "www", "7", csr, r))

SubmitSslCertificate ==
    \E d \in Domains, i \in Ids, r \in Responses :
        Do("submit_ssl_certificate", [domain |-> d, cert_id |-> i],
           submit_ssl_certificate(d, i, r))

CreateUserAccount ==
    \E r \in Responses :
        Do("create_user_account",
           [email |-> "ada@example.com", password |-> "pw"],
           create_user_account("ada@example.com", "pw", r))

Next ==
    \/ Dispatch
    \/ GetDomain
    \/ CreateDomain
    \/ CheckDomain
    \/ RegisterDomain
    \/ TransferDomain
    \/ RenewDomain
    \/ EnableAutoRenewal
    \/ DisableAutoRenewal
    \/ DeleteDomain
    \/ Nameservers
    \/ GetServices
    \/ GetAppliedServices
    \/ GetAvailableServices
    \/ ApplyService
    \/ RemoveService
    \/ GetRecord
    \/ CreateRecord
    \/ UpdateRecord
    \/ DeleteRecord
    \/ EnableVanityNameServers
    \/ DisableVanityNameServers
    \/ GetContact
    \/ CreateContact
    \/ UpdateContact
    \/ DeleteContact
    \/ GetTemplate
    \/ CreateTemplate
    \/ DeleteTemplate
    \/ ApplyTemplateToDomain
    \/ GetTemplateRecord
    \/ CreateTemplateRecord
    \/ DeleteTemplateRecord
    \/ RequiredExtendedAttributes
    \/ EnablePrivacyProtection
    \/ DisablePrivacyProtection
    \/ GetDomainMembers
    \/ AddDomainMember
    \/ RemoveDomainMember
    \/ GetSslCertificate
    \/ PurchaseSslCertificateForDomain
    \/ SubmitSslCertificate
    \/ CreateUserAccount

Spec == Init /\ [][Next]_vars

(***************************************************************************)
(* Properties.                                                             *)
(***************************************************************************)
\* The call was a direct use of the helper with one of the given methods.
IsDispatch(ms) == call.op = "__resthelper" /\ call.args.method \in ms

\* The call was one of the public endpoint methods.
IsEndpointCall == call.op \notin {"__init__", "__resthelper"}

\* The call got exactly one answer from the remote service.
Answered == Len(requests) = 1 /\ Len(responses) = 1

HttpError(status) == outcome.kind = "raise" /\ outcome.exc = "HTTPError"
                     /\ outcome.status = status

\* The call returned the decoded body of the answer, where the answer's text
\* is JSON (a text that is not JSON has no decoded body).
ReturnsDecodedBody(resp) ==
    json_loads(resp.text).ok => outcome = Return(json_loads(resp.text).value)

\* C1: a POST or PUT that the remote service answers with a non-2xx status
\* fails with an HTTP error carrying that status.
C1_WriteNon2xxFails ==
    (/\ Answered
     /\ requests[1].method \in {"post", "put"}
     /\ responses[1].status \notin 200..299)
    => HttpError(responses[1].status)

\* C2: a GET through the helper returns the decoded body on 404 when
\* expect_404 is set; otherwise a status >= 400 is an HTTP error carrying the
\* status and a status < 400 returns the decoded body unchanged.
C2_GetStatusHandling ==
    (IsDispatch({"get"}) /\ Answered) =>
        LET resp == responses[1] IN
        IF resp.status = 404 /\ call.args.expect_404
        THEN ReturnsDecodedBody(resp) /\ outcome.exc # "HTTPError"
        ELSE IF resp.status >= 400
             THEN HttpError(resp.status)
             ELSE ReturnsDecodedBody(resp) /\ outcome.exc # "HTTPError"

C2_Witness ==
    /\ IsDispatch({"get"})
    /\ Len(requests) = 1
    /\ call.args.expect_404
    /\ responses[1] = [status |-> 404, text |-> TextAvailable]
    /\ outcome = Return(PyDict([available |-> PyBool(TRUE)]))

\* C3: check_domain is the only endpoint method for which a 404 answer is a
\* normal outcome whose decoded body is returned; for every other endpoint
\* method a 404 answer is an HTTP error.
C3_Only404ExemptIsCheckDomain ==
    (IsEndpointCall /\ Answered /\ responses[1].status = 404) =>
        IF call.op = "check_domain"
        THEN ReturnsDecodedBody(responses[1]) /\ outcome.exc # "HTTPError"
        ELSE HttpError(404)

\* C4: a POST or PUT through the helper with no body fails before anything
\* is sent: no transport request is recorded for the call.
C4_WriteWithoutBodyRefused ==
    (IsDispatch({"post", "put"}) /\ call.args.data = NoData) =>
        /\ outcome.kind = "raise"
        /\ outcome.exc = "Exception"
        /\ requests = <<>>

C4_Witness ==
    /\ IsDispatch({"put"})
    /\ call.args.data = NoData
    /\ outcome.kind = "raise"
    /\ requests = <<>>

\* C5: a DELETE answered with a status >= 400 fails with an HTTP error;
\* otherwise the decoded body of the answer is returned unchanged.
C5_DeleteStatusHandling ==
    (Answered /\ requests[1].method = "delete") =>
        LET resp == responses[1] IN
        IF resp.status >= 400
        THEN HttpError(resp.status)
        ELSE ReturnsDecodedBody(resp) /\ outcome.exc # "HTTPError"

C5_Witness ==
    /\ IsDispatch({"delete"})
    /\ Len(requests) = 1
    /\ responses[1] = [status |-> 200, text |-> TextKV]
    /\ outcome = Return(PyDict([k |-> PyStr("v")]))

\* The one request of the call is a POST to endpoint + path carrying the
\* JSON text of body with the JSON content type.
PostedOnce(path, body) ==
    /\ Len(requests) = 1
    /\ requests[1].method = "post"
    /\ requests[1].url = endpoint \o path
    /\ requests[1].data = json_dumps(body)

\* C6: nameservers given both a nameserver map and reset, or given neither,
\* fails with an invalid-argument error and sends nothing.
C6_NameserversBothOrNeitherRefused ==
    (/\ call.op = "nameservers"
     /\ \/ Truthy(call.args.nameservers) /\ call.args.reset
        \/ ~Truthy(call.args.nameservers) /\ ~call.args.reset)
    => /\ outcome.kind = "raise"
       /\ outcome.exc = "ValueError"
       /\ requests = <<>>

C6_Witness ==
    /\ call.op = "nameservers"
    /\ call.args.nameservers = NsMap(6)
    /\ call.args.reset
    /\ outcome.kind = "raise"
    /\ outcome.exc = "ValueError"
    /\ requests = <<>>

\* C7: nameservers given a non-empty map of at most 6 entries and no reset
\* issues one POST to /domains/{domain}/name_servers with body
\* {name_servers: map}; given reset and no map it issues that POST with the
\* four default nameservers.
C7_NameserversAccepted ==
    call.op = "nameservers" =>
        LET ns == call.args.nameservers
            path == "/domains/" \o call.args.domain \o "/name_servers"
        IN /\ (/\ isinstance_dict(ns)
               /\ len(ns) \in 1..6
               /\ ~call.args.reset)
              => PostedOnce(path, PyDict([name_servers |-> ns]))
           /\ (~Truthy(ns) /\ call.args.reset)
              => PostedOnce(path,
                            PyDict([name_servers |-> default_nameservers]))

\* The registrant_id carried by the body of a registration POST, or None.
PostedRegistrant(req) ==
    LET d == req.data.v.v["domain"].v IN
    IF "registrant_id" \in DOMAIN d THEN d["registrant_id"] ELSE PyNone

\* C8: register_domain without a registrant_id first issues the GET that
\* lists the account's domains, then the registration POST carrying the
\* registrant_id of the first listed domain.
C8_RegistrantInferredFromListing ==
    (call.op = "register_domain" /\ ~Truthy(call.args.registrant_id)) =>
        /\ Len(requests) >= 1
        /\ requests[1].method = "get"
        /\ requests[1].url = endpoint \o "/domains/"
        /\ LET listed == json_loads(responses[1].text)
               first == FirstRegistrant(listed.value)
           IN (responses[1].status < 400 /\ listed.ok /\ first.ok) =>
                /\ Len(requests) = 2
                /\ requests[2].method = "post"
                /\ requests[2].url = endpoint \o "/domain_registrations"
                /\ PostedRegistrant(requests[2]) = first.value

\* C9: register_domain without a registrant_id never issues a registration
\* POST with an empty or missing registrant_id; when none was inferred the
\* call fails instead.
C9_NoRegistrationWithoutRegistrant ==
    (call.op = "register_domain" /\ ~Truthy(call.args.registrant_id)) =>
        /\ \A i \in DOMAIN requests :
              requests[i].method = "post"
                  => Truthy(PostedRegistrant(requests[i]))
        /\ (\A i \in DOMAIN requests : requests[i].method # "post")
              => outcome.kind = "raise"

\* C10: add_domain_member issues one POST to /domains/{domain}/memberships
\* with body {membership:{email}}; purchase_ssl_certificate_for_domain
\* issues one POST to /domains/{domain}/certificates with body
\* {certificate:{name, contact_id[, csr]}}.
C10_WriteBodiesSent ==
    /\ call.op = "add_domain_member" =>
          PostedOnce("/domains/" \o call.args.domain \o "/memberships",
                     PyDict([membership |->
                         PyDict([email |-> PyStr(call.args.email)])]))
    /\ call.op = "purchase_ssl_certificate_for_domain" =>
          PostedOnce("/domains/" \o call.args.domain \o "/certificates",
                     PyDict([certificate |->
                         SetIfTruthy(
                             PyDict([name |-> PyStr(call.args.name),
                                     contact_id |->
                                         PyStr(call.args.contact_id)]),
                             "csr", call.args.csr)]))

\* The call made exactly one request, of the given method to endpoint + path,
\* was not refused by the helper, and returned the decoded answer.
ReachedRemote(method, path) ==
    /\ Answered
    /\ requests[1].method = method
    /\ requests[1].url = endpoint \o path
    /\ outcome.exc # "Exception"
    /\ ReturnsDecodedBody(responses[1])

\* C11: the body-less write endpoints reach the remote service:
\* apply_template_to_domain POSTs to /domains/{id}/templates/{template}/apply,
\* enable_privacy_protection POSTs to /domains/{id}/whois_privacy and
\* submit_ssl_certificate PUTs to /domains/{id}/certificates/{cert_id}/submit;
\* each makes exactly one request and returns the decoded answer (where the
\* answer is JSON) instead of failing before the network call.
C11_BodylessWritesReachRemote ==
    /\ call.op = "apply_template_to_domain" =>
          ReachedRemote("post",
                  "/domains/" \o call.args.domain \o "/templates/"
                      \o call.args.template \o "/apply")
    /\ call.op = "enable_privacy_protection" =>
          ReachedRemote("post",
                  "/domains/" \o call.args.domain \o "/whois_privacy")
    /\ call.op = "submit_ssl_certificate" =>
          ReachedRemote("put",
                  "/domains/" \o call.args.domain \o "/certificates/"
                      \o call.args.cert_id \o "/submit")

\* The body enable_vanity_name_servers is to send: the server source, and
\* for an external source the entries of the nameserver map beside it.
VanityBody(server_source, ns) ==
    LET base == [server_source |-> PyStr(server_source)]
        conf == IF server_source = "external"
                THEN [k \in (DOMAIN base) \cup (DOMAIN ns.v) |->
                         IF k \in DOMAIN ns.v THEN ns.v[k] ELSE base[k]]
                ELSE base
    IN PyDict("vanity_nameserver_configuration" :> PyDict(conf))

\* C12: enable_vanity_name_servers with server_source "dnsimple" issues one
\* POST to /domains/{domain}/vanity_name_servers with body
\* {vanity_nameserver_configuration:{server_source}}; with "external" and a
\* map of 1 to 4 entries it issues that POST with the map's entries added
\* to the configuration; in every other case it fails with an
\* invalid-argument error and sends nothing.
C12_VanityNameServers ==
    call.op = "enable_vanity_name_servers" =>
        LET src  == call.args.server_source
            ns   == call.args.nameservers
            path == "/domains/" \o call.args.domain \o "/vanity_name_servers"
        IN IF src = "dnsimple"
           THEN PostedOnce(path, VanityBody(src, ns))
           ELSE IF /\ src = "external"
                   /\ isinstance_dict(ns)
                   /\ len(ns) \in 1..4
                THEN PostedOnce(path, VanityBody(src, ns))
                ELSE /\ outcome.kind = "raise"
                     /\ outcome.exc = "ValueError"
                     /\ requests = <<>>

\* An optional argument was supplied: it is not the parameter's default ''.
Supplied(x) == x # PyStr("")

\* d with key set to val when val was supplied.
WithSupplied(d, key, val) == IF Supplied(val) THEN SetItem(d, key, val) ELSE d

\* C13: create_record issues one POST to /domains/{domain}/records whose
\* body is {record:{name, record_type, content}} plus a ttl key exactly when
\* ttl is supplied and a prio key exactly when prio is supplied.
C13_CreateRecordBody ==
    call.op = "create_record" =>
        LET a == call.args
            base == PyDict([name |-> PyStr(a.record_name),
                            record_type |-> PyStr(a.record_type),
                            content |-> PyStr(a.record_content)])
            rec == WithSupplied(WithSupplied(base, "ttl", a.record_ttl),
                                "prio", a.record_prio)
        IN PostedOnce("/domains/" \o a.domain \o "/records",
                      PyDict([record |-> rec]))

\* register_domain was called without a usable registrant_id.
InferredRegistration ==
    call.op = "register_domain" /\ ~Truthy(call.args.registrant_id)

\* The call failed on its arguments (not on the answer of the remote service).
InvalidArgument ==
    /\ outcome.kind = "raise"
    /\ outcome.exc \in {"ValueError", "Exception", "KeyError"}
    /\ outcome.msg # "No JSON object could be decoded"

\* C14: every endpoint call issues at most one transport request, except
\* register_domain without a registrant_id, which issues a GET and then a
\* POST (two requests when it succeeds); a call that fails on its arguments
\* sends nothing, and a call that fails with an HTTP error fails on the
\* answer to its last request, with nothing sent after it.
C14_SingleRoundTrip ==
    IsEndpointCall =>
        /\ Len(responses) = Len(requests)
        /\ IF InferredRegistration
           THEN /\ Len(requests) \in 1..2
                /\ requests[1].method = "get"
                /\ Len(requests) = 2 => requests[2].method = "post"
                /\ outcome.kind = "return" => Len(requests) = 2
           ELSE Len(requests) <= 1
        /\ InvalidArgument => requests = <<>>
        /\ outcome.exc = "HTTPError" =>
              /\ requests # <<>>
              /\ responses[Len(responses)].status = outcome.status
              /\ outcome.status >= 400

\* C15: no call changes the session: the endpoint, the credentials and the
\* default headers keep the values the constructor set, and a GET or DELETE
\* carries exactly the default headers and the credentials, without the
\* Content-Type that the POST and PUT requests carry.
C15_SessionImmutable ==
    [][/\ endpoint' = endpoint
       /\ authdata' = authdata
       /\ useragent' = useragent
       /\ headers' = headers
       /\ session' = session
       /\ \A i \in DOMAIN requests' :
             /\ requests'[i].auth = authdata
             /\ requests'[i].method \in {"get", "delete"} =>
                   /\ "Content-Type" \notin DOMAIN requests'[i].headers
                   /\ requests'[i].headers = headers
             /\ requests'[i].method \in {"post", "put"} =>
                   "Content-Type" \in DOMAIN requests'[i].headers]_vars

C15_Witness ==
    /\ ncalls = 2
    /\ Len(requests) = 1
    /\ requests[1].method = "get"
    /\ "Content-Type" \notin DOMAIN requests[1].headers
    /\ endpoint = "https://dnsimple.com"
    /\ session = [auth |-> authdata, headers |-> headers]
    /\ DOMAIN headers = {"Accept", "User-Agent"}

====
